---- MODULE Spec2Model ----
(***************************************************************************)
(* Layer descriptors of ml/deep_learning/layer.py (Python 2):              *)
(* AbstractLayer, Input, Layer, Convolution, Pooling.                      *)
(*                                                                         *)
(* One descriptor is alive at a time.  `self` holds its attributes, `last` *)
(* the most recent call (operation, arguments, outcome) and `pc` whether   *)
(* a descriptor exists.  A call that raises leaves `self` as the code      *)
(* leaves it; a constructor that raises yields no descriptor.              *)
(***************************************************************************)
EXTENDS Integers, Sequences, FiniteSets, TLC

VARIABLES self, last, pc

vars == <<self, last, pc>>

(***************************************************************************)
(* Bounds of the model.                                                    *)
(***************************************************************************)
\* shape entries (kernel, stride, padding) range over -1 .. MaxDim
MaxDim == 2
\* channel counts range over 0 .. MaxPlane
MaxPlane == 2
\* height and width of an upstream blob range over 1 .. MaxSide
MaxSide == 3

(***************************************************************************)
(* Python values.  Every value carries its type tag.                       *)
(***************************************************************************)
None == [t |-> "NoneType"]
PyInt(i) == [t |-> "int", i |-> i]
\* the float 1.5, kept as twice its value
PyFloat == [t |-> "float", twice |-> 3]
\* a str; `interned` tells a literal (one shared object per text) from a
\* string built at run time, which `is` tells apart from the literal
PyStr(s, interned) == [t |-> "str", s |-> s, interned |-> interned]
Lit(s) == PyStr(s, TRUE)
PyTuple(items) == [t |-> "tuple", items |-> items]
PyList(items) == [t |-> "list", items |-> items]
\* a numpy array, known by its shape only
NdArray(shape) == [t |-> "ndarray", shape |-> shape]
Pair(a, b) == PyTuple(<<a, b>>)

\* outcomes of a call
Return(v) == [k |-> "return", v |-> v]
Raise(e) == [k |-> "raise", exc |-> e]

\* x == y on strings compares the text
PyEq(x, y) ==
  IF x.t = "str" /\ y.t = "str" THEN x.s = y.s ELSE x = y

\* x is y: the same object; two equal strings are one object only when
\* both are interned literals
PyIs(x, y) ==
  IF x.t = "str" /\ y.t = "str" THEN x.s = y.s /\ x.interned /\ y.interned
  ELSE x = y

IsNumber(x) == x.t \in {"int", "float"}
Twice(x) == IF x.t = "int" THEN 2 * x.i ELSE x.twice

\* x > y in Python 2: numbers by value, None below everything, a number
\* below every other object, other types by type name
PyGt(x, y) ==
  IF IsNumber(x) /\ IsNumber(y) THEN Twice(x) > Twice(y)
  ELSE IF x.t = "NoneType" THEN FALSE
  ELSE IF y.t = "NoneType" THEN TRUE
  ELSE IF IsNumber(x) THEN FALSE
  ELSE IF IsNumber(y) THEN TRUE
  ELSE FALSE

PyGe(x, y) == PyGt(x, y) \/ (IsNumber(x) /\ IsNumber(y) /\ Twice(x) = Twice(y))

\* len(x) is defined for the sequences; any other object used here (None, a
\* number) has no length and len raises TypeError
HasLen(x) == x.t \in {"tuple", "list"}
PyLen(x) == Len(x.items)

isstring(x) == x.t = "str"
isndarray(x) == x.t = "ndarray"

TypeTags == {Lit("uint"), Lit("single"), Lit("double")}

(***************************************************************************)
(* The descriptor.                                                         *)
(***************************************************************************)
\* an attribute the class never assigns
Absent == [t |-> "absent"]

NoDescriptor == [cls |-> "none"]

NoCall == [op |-> "none"]

(***************************************************************************)
(* Input.__init__                                                          *)
(***************************************************************************)
Input__init__(name) ==
  IF ~isstring(name) THEN [outcome |-> Raise("AssertionError"), obj |-> NoDescriptor]
  ELSE [outcome |-> Return(None),
        obj |-> [cls |-> "Input", _name |-> name, _data |-> None, _params |-> None,
                 _paramtype |-> None, _datatype |-> None,
                 _kernal_size |-> Absent, _stride |-> Absent, _padding |-> Absent,
                 _nInputPlane |-> Absent, _nOutputPlane |-> Absent]]

(***************************************************************************)
(* Layer.__init__                                                          *)
(***************************************************************************)
Failed(e) == [outcome |-> Raise(e), obj |-> NoDescriptor]

\* `x is None or type(x) is int or len(x) == 2`
ShapeArgCheck(x) ==
  IF x = None \/ x.t = "int" THEN "ok"
  ELSE IF ~HasLen(x) THEN "TypeError"
  ELSE IF PyLen(x) = 2 THEN "ok" ELSE "AssertionError"

\* all(item > 0 and type(item) is int for item in kernal_size)
KernelItemsOk(kernal_size) ==
  \A n \in 1..Len(kernal_size.items) :
     PyGt(kernal_size.items[n], PyInt(0)) /\ kernal_size.items[n].t = "int"

\* all(stride > 0 and type(item) is int for item in stride)
StrideItemsOk(stride) ==
  \A n \in 1..Len(stride.items) :
     PyGt(stride, PyInt(0)) /\ stride.items[n].t = "int"

\* all(padding >= 0 and type(item) is int for item in padding)
PaddingItemsOk(padding) ==
  \A n \in 1..Len(padding.items) :
     PyGe(padding, PyInt(0)) /\ padding.items[n].t = "int"

\* any(tag == item for item in ['uint', 'single', 'double'])
TagEqAny(tag) == \E item \in TypeTags : PyEq(tag, item)

Normalize_kept(x) == x

\* set horizontal and vertical parameter as the same if only one is given
Normalize(x) == IF x.t = "int" THEN Pair(x, x) ELSE x

Layer__init__(cls, name, nInputPlane, nOutputPlane, kernal_size, stride, padding, datatype, params, paramtype) ==
  IF ~isstring(name) THEN Failed("AssertionError")
  ELSE IF ~(nInputPlane.t = "int" /\ PyGt(nInputPlane, PyInt(0))) THEN Failed("AssertionError")
  ELSE IF ~(nOutputPlane.t = "int" /\ PyGt(nOutputPlane, PyInt(0))) THEN Failed("AssertionError")
  ELSE IF ShapeArgCheck(kernal_size) # "ok" THEN Failed(ShapeArgCheck(kernal_size))
  ELSE IF ShapeArgCheck(stride) # "ok" THEN Failed(ShapeArgCheck(stride))
  ELSE IF ShapeArgCheck(padding) # "ok" THEN Failed(ShapeArgCheck(padding))
  ELSE IF ~(params = None \/ isndarray(params)) THEN Failed("AssertionError")
  ELSE IF kernal_size.t # "int" /\ kernal_size # None /\ ~KernelItemsOk(kernal_size)
       THEN Failed("AssertionError")
  ELSE IF stride.t # "int" /\ stride # None /\ ~StrideItemsOk(stride)
       THEN Failed("AssertionError")
  ELSE IF padding.t # "int" /\ padding # None /\ ~PaddingItemsOk(padding)
       THEN Failed("AssertionError")
  ELSE IF datatype # None /\ ~TagEqAny(datatype) THEN Failed("AssertionError")
  ELSE IF paramtype # None /\ ~TagEqAny(paramtype) THEN Failed("AssertionError")
  ELSE [outcome |-> Return(None),
        obj |-> [cls |-> cls, _name |-> name, _data |-> None, _params |-> params,
                 _paramtype |-> IF paramtype = None THEN Lit("single") ELSE paramtype,
                 _datatype |-> IF datatype = None THEN Lit("single") ELSE datatype,
                 _kernal_size |-> Normalize(kernal_size),
                 _stride |-> Normalize(stride),
                 _padding |-> Normalize(padding),
                 _nInputPlane |-> nInputPlane, _nOutputPlane |-> nOutputPlane]]

\* Convolution.__init__: the base constructor, then the defaults of stride
\* and padding, which are assigned to the local names only
Convolution__init__(name, nInputPlane, nOutputPlane, kernal_size, stride, padding, datatype, params, paramtype) ==
  Layer__init__("Convolution", name, nInputPlane, nOutputPlane, kernal_size, stride,
                padding, datatype, params, paramtype)

\* Pooling.__init__: the base constructor is called with paramtype in the
\* eighth position, which is the base's `params`; the base's paramtype is
\* left to its default
Pooling__init__(name, nInputPlane, nOutputPlane, kernal_size, stride, padding, datatype, paramtype) ==
  Layer__init__("Pooling", name, nInputPlane, nOutputPlane, kernal_size, stride,
                padding, datatype, paramtype, None)

(***************************************************************************)
(* Setters.  Each returns the outcome and the descriptor afterwards.       *)
(***************************************************************************)
Done(o) == [outcome |-> Return(None), obj |-> o]
Raised(e, o) == [outcome |-> Raise(e), obj |-> o]

AbstractLayer_data_setter(o, data) == Raised("NotImplementedError", o)

AbstractLayer_params_setter(o, params) == Raised("NotImplementedError", o)

\* any(tag is item for item in ['uint', 'single', 'double'])
TagIsAny(tag) == \E item \in TypeTags : PyIs(tag, item)

paramtype_setter(o, paramtype) ==
  IF ~isstring(paramtype) THEN Raised("AssertionError", o)
  ELSE IF ~TagIsAny(paramtype) THEN Raised("AssertionError", o)
  ELSE Done([o EXCEPT !._paramtype = paramtype])

datatype_setter(o, datatype) ==
  IF ~isstring(datatype) THEN Raised("AssertionError", o)
  ELSE IF ~TagIsAny(datatype) THEN Raised("AssertionError", o)
  ELSE Done([o EXCEPT !._datatype = datatype])

Input_data_setter(o, data) ==
  IF ~isndarray(data) THEN Raised("AssertionError", o)
  ELSE Done([o EXCEPT !._data = data])

Input_params_setter_stores(o, params) == Done([o EXCEPT !._params = params])

Input_params_setter(o, params) == Raised("AssertionError", o)

\* data.shape is a tuple; data.shape(3) calls it, which raises TypeError
Convolution_data_setter(o, data) ==
  IF ~isndarray(data) THEN Raised("AssertionError", o)
  ELSE IF Len(data.shape) # 4 THEN Raised("AssertionError", o)
  ELSE Raised("TypeError", o)

\* params.shape(0) raises TypeError in the same way
Convolution_params_setter(o, params) ==
  IF ~isndarray(params) THEN Raised("AssertionError", o)
  ELSE IF Len(params.shape) # 3 THEN Raised("AssertionError", o)
  ELSE Raised("TypeError", o)

\* attribute lookup along the class hierarchy
data_setter(o, data) ==
  CASE o.cls = "Input" -> Input_data_setter(o, data)
    [] o.cls = "Convolution" -> Convolution_data_setter(o, data)
    [] OTHER -> AbstractLayer_data_setter(o, data)

params_setter(o, params) ==
  CASE o.cls = "Input" -> Input_params_setter(o, params)
    [] o.cls = "Convolution" -> Convolution_params_setter(o, params)
    [] OTHER -> AbstractLayer_params_setter(o, params)

(***************************************************************************)
(* Queries.  Each returns an outcome.                                      *)
(***************************************************************************)
Input_get_num_param(o) == Return(PyInt(0))

Pooling_get_num_param(o) == Return(PyInt(0))

Convolution_get_num_param_bias(o) ==
  IF o._kernal_size = None THEN Raise("TypeError")
  ELSE Return(PyInt(o._kernal_size.items[1].i * o._kernal_size.items[2].i
                    * o._nInputPlane.i * o._nOutputPlane.i + o._nOutputPlane.i))

\* indexing None raises TypeError
Convolution_get_num_param(o) ==
  IF o._kernal_size = None THEN Raise("TypeError")
  ELSE Return(PyInt(o._kernal_size.items[1].i * o._kernal_size.items[2].i
                    * o._nInputPlane.i * o._nOutputPlane.i))

get_num_param(o) ==
  CASE o.cls = "Input" -> Input_get_num_param(o)
    [] o.cls = "Convolution" -> Convolution_get_num_param(o)
    [] o.cls = "Pooling" -> Pooling_get_num_param(o)
    [] OTHER -> Raise("NotImplementedError")

\* no branch is taken for any other paramtype, and the function returns None
get_memory_usage_param(o) ==
  IF PyEq(o._paramtype, Lit("single"))
    THEN IF get_num_param(o).k = "raise" THEN get_num_param(o)
         ELSE Return(PyInt(get_num_param(o).v.i * 4))
  ELSE IF PyEq(o._paramtype, Lit("double"))
    THEN IF get_num_param(o).k = "raise" THEN get_num_param(o)
         ELSE Return(PyInt(get_num_param(o).v.i * 8))
  ELSE IF PyEq(o._paramtype, Lit("uint"))
    THEN get_num_param(o)
  ELSE Return(None)

\* no class defines get_memory_usage_data: once get_memory_usage_param has
\* returned, looking the method up raises AttributeError
get_memory_usage(o) ==
  IF get_memory_usage_param(o).k = "raise" THEN get_memory_usage_param(o)
  ELSE Raise("AttributeError")

\* self._data.shape; None has no attribute shape
Input_get_output_blob_shape(o) ==
  IF o._data = None THEN Raise("AttributeError")
  ELSE Return(PyTuple([n \in 1..Len(o._data.shape) |-> PyInt(o._data.shape[n])]))

\* the first assert checks the argument, the second is `assert False`
Convolution_get_output_blob_shape(o, bottom_shape) ==
  IF ~HasLen(bottom_shape) THEN Raise("TypeError")
  ELSE IF PyLen(bottom_shape) # 1 THEN Raise("AssertionError")
  ELSE IF ~HasLen(bottom_shape.items[1]) THEN Raise("TypeError")
  ELSE IF PyLen(bottom_shape.items[1]) # 3 THEN Raise("AssertionError")
  ELSE Raise("AssertionError")

\* the body is `pass`
Pooling_get_output_blob_shape(o, bottom_shape) == Return(None)

AbstractLayer_get_output_blob_shape(o, bottom_shape) == Raise("NotImplementedError")

get_output_blob_shape(o, bottom_shape) ==
  CASE o.cls = "Input" -> Input_get_output_blob_shape(o)
    [] o.cls = "Convolution" -> Convolution_get_output_blob_shape(o, bottom_shape)
    [] o.cls = "Pooling" -> Pooling_get_output_blob_shape(o, bottom_shape)
    [] OTHER -> AbstractLayer_get_output_blob_shape(o, bottom_shape)

\* the read-only properties
kernal_size(o) == o._kernal_size
stride(o) == o._stride
padding(o) == o._padding
params(o) == o._params
paramtype(o) == o._paramtype
data(o) == o._data

(***************************************************************************)
(* Arguments the callers pass.  An omitted keyword argument is its         *)
(* default, None.                                                          *)
(***************************************************************************)
Names == {Lit("layer1"), PyInt(1)}
Planes == {PyInt(n) : n \in 0..MaxPlane}
Entries == {PyInt(n) : n \in -1..MaxDim} \cup {PyFloat}
\* every scalar and pair the constructor may be given, and a triple
AllShapes ==
  {PyInt(n) : n \in -1..MaxDim} \cup {Pair(a, b) : a \in Entries, b \in Entries}
    \cup {PyFloat, PyTuple(<<PyInt(1), PyInt(1), PyInt(1)>>)}
\* a few well-formed shapes
SomeKernels == {PyInt(MaxDim), Pair(PyInt(1), PyInt(MaxDim))}
SomeStrides == {None, PyInt(1), Pair(PyInt(1), PyInt(MaxDim))}
SomePaddings == {None, PyInt(0), Pair(PyInt(0), PyInt(1))}
Tags == {None, Lit("int8")} \cup TypeTags
SomeTags == {None, Lit("double"), Lit("int8")}
Arrays ==
  {NdArray(<<1, 1, 1, c>>) : c \in 1..MaxPlane} \cup {NdArray(<<c, 1, 1>>) : c \in 1..MaxPlane}
\* values assigned to data and params
Blobs == Arrays \cup {None, PyInt(0)}
\* values assigned to datatype and paramtype
TagValues == TypeTags \cup {PyStr("double", FALSE), Lit("int8"), PyInt(4)}
\* upstream shapes handed to get_output_blob_shape
Bottoms ==
  {PyList(<<PyTuple(<<PyInt(c), PyInt(h), PyInt(w)>>)>>) :
      c \in {MaxPlane}, h \in {1, MaxSide}, w \in {MaxSide}}
    \cup {PyList(<< >>), PyList(<<Pair(PyInt(1), PyInt(1))>>)}

\* constructor calls of the descriptor's life: few shapes, every other
\* argument varied
LayerArgs(kernels) ==
  [name : Names, nInputPlane : Planes, nOutputPlane : Planes, kernal_size : kernels,
   stride : SomeStrides, padding : SomePaddings, datatype : SomeTags,
   params : {None, NdArray(<<1, 1, 1>>), PyInt(0)}, paramtype : Tags]

PoolingArgs ==
  [name : Names, nInputPlane : Planes, nOutputPlane : Planes, kernal_size : SomeKernels,
   stride : SomeStrides, padding : SomePaddings, datatype : SomeTags, paramtype : Tags]

\* constructor calls that vary the three shape arguments over AllShapes
ShapeArgs(kernels) ==
  [name : {Lit("layer1")}, nInputPlane : Planes \ {PyInt(0)},
   nOutputPlane : Planes \ {PyInt(0)}, kernal_size : kernels,
   stride : AllShapes \cup {None}, padding : AllShapes \cup {None},
   datatype : {None}, params : {None}, paramtype : {None}]

PoolingShapeArgs ==
  [name : {Lit("layer1")}, nInputPlane : Planes \ {PyInt(0)},
   nOutputPlane : Planes \ {PyInt(0)}, kernal_size : AllShapes,
   stride : AllShapes \cup {None}, padding : AllShapes \cup {None},
   datatype : {None}, paramtype : {None}]

(***************************************************************************)
(* Actions.                                                                *)
(***************************************************************************)
Init == self = NoDescriptor /\ last = NoCall /\ pc = "start"

Constructed(op, a, r) ==
  /\ self' = r.obj
  /\ last' = [op |-> op, args |-> a, outcome |-> r.outcome]
  /\ pc' = IF r.outcome.k = "return" THEN "live" ELSE "failed"

NewInput ==
  /\ pc = "start"
  /\ \E name \in Names : Constructed("Input", [name |-> name], Input__init__(name))

NewLayerWith(args) ==
  /\ pc = "start"
  /\ \E a \in args :
       Constructed("Layer", a,
         Layer__init__("Layer", a.name, a.nInputPlane, a.nOutputPlane, a.kernal_size,
                       a.stride, a.padding, a.datatype, a.params, a.paramtype))

NewConvolutionWith(args) ==
  /\ pc = "start"
  /\ \E a \in args :
       Constructed("Convolution", a,
         Convolution__init__(a.name, a.nInputPlane, a.nOutputPlane, a.kernal_size,
                             a.stride, a.padding, a.datatype, a.params, a.paramtype))

NewPoolingWith(args) ==
  /\ pc = "start"
  /\ \E a \in args :
       Constructed("Pooling", a,
         Pooling__init__(a.name, a.nInputPlane, a.nOutputPlane, a.kernal_size,
                         a.stride, a.padding, a.datatype, a.paramtype))

NewLayer == NewLayerWith(LayerArgs(SomeKernels \cup {None}))
NewConvolution == NewConvolutionWith(LayerArgs(SomeKernels))
NewPooling == NewPoolingWith(PoolingArgs)

NewLayerShape == NewLayerWith(ShapeArgs(AllShapes \cup {None}))
NewConvolutionShape == NewConvolutionWith(ShapeArgs(AllShapes))
NewPoolingShape == NewPoolingWith(PoolingShapeArgs)

Assigned(op, v, r) ==
  /\ self' = r.obj
  /\ last' = [op |-> op, args |-> v, outcome |-> r.outcome]
  /\ pc' = pc

SetData ==
  /\ pc = "live"
  /\ \E v \in Blobs : Assigned("data.setter", v, data_setter(self, v))

SetParams ==
  /\ pc = "live"
  /\ \E v \in Blobs : Assigned("params.setter", v, params_setter(self, v))

SetParamtype ==
  /\ pc = "live"
  /\ \E v \in TagValues : Assigned("paramtype.setter", v, paramtype_setter(self, v))

SetDatatype ==
  /\ pc = "live"
  /\ \E v \in TagValues : Assigned("datatype.setter", v, datatype_setter(self, v))

Queried(op, v, outcome) ==
  /\ last' = [op |-> op, args |-> v, outcome |-> outcome]
  /\ UNCHANGED <<self, pc>>

GetNumParam ==
  /\ pc = "live"
  /\ Queried("get_num_param", None, get_num_param(self))

GetMemoryUsageParam ==
  /\ pc = "live"
  /\ Queried("get_memory_usage_param", None, get_memory_usage_param(self))

GetMemoryUsage ==
  /\ pc = "live"
  /\ Queried("get_memory_usage", None, get_memory_usage(self))

GetOutputBlobShape ==
  /\ pc = "live"
  /\ IF self.cls = "Input"
       THEN Queried("get_output_blob_shape", None, get_output_blob_shape(self, None))
       ELSE \E b \in Bottoms :
              Queried("get_output_blob_shape", b, get_output_blob_shape(self, b))

\* the descriptor goes out of use
Drop ==
  /\ pc # "start"
  /\ self' = NoDescriptor /\ last' = NoCall /\ pc' = "start"

Next ==
  \/ NewInput
  \/ NewLayer
  \/ NewConvolution
  \/ NewPooling
  \/ SetData
  \/ SetParams
  \/ SetParamtype
  \/ SetDatatype
  \/ GetNumParam
  \/ GetMemoryUsageParam
  \/ GetMemoryUsage
  \/ GetOutputBlobShape
  \/ Drop

Spec == Init /\ [][Next]_vars

NextShape ==
  \/ NewLayerShape
  \/ NewConvolutionShape
  \/ NewPoolingShape
  \/ Drop

SpecShape == Init /\ [][NextShape]_vars

(***************************************************************************)
(* Properties.                                                             *)
(***************************************************************************)
LayerClasses == {"Layer", "Convolution", "Pooling"}
IsIntPair(x) == x.t = "tuple" /\ Len(x.items) = 2 /\ \A n \in 1..2 : x.items[n].t = "int"
IsPair(x) == x.t = "tuple" /\ Len(x.items) = 2
Built == last.op \in LayerClasses /\ last.outcome.k = "return"

\* C1: an Input descriptor never holds params, and an assignment to params
\* of an Input raises and changes no attribute of the descriptor.
C1_InputNeverHoldsParams ==
  /\ [](self.cls = "Input" => params(self) = None)
  /\ [][(self.cls = "Input" /\ last'.op = "params.setter")
          => (last'.outcome = Raise("AssertionError") /\ self' = self)]_vars

C1_Witness ==
  /\ self.cls = "Input"
  /\ last.op = "params.setter" /\ last.args \in Arrays
  /\ last.outcome = Raise("AssertionError")
  /\ data(self) \in Arrays /\ paramtype(self) = Lit("double")
  /\ params(self) = None

\* the shape argument is zero or negative, as a scalar or in an entry
HasNonPositive(x) ==
  \/ x.t = "int" /\ x.i <= 0
  \/ IsPair(x) /\ \E n \in 1..2 : x.items[n].t = "int" /\ x.items[n].i <= 0
HasNegative(x) ==
  \/ x.t = "int" /\ x.i < 0
  \/ IsPair(x) /\ \E n \in 1..2 : x.items[n].t = "int" /\ x.items[n].i < 0
HasNonInteger(x) == IsPair(x) /\ \E n \in 1..2 : x.items[n].t # "int"
\* omitted, a scalar integer or a pair
ScalarOrPair(x) == x = None \/ x.t = "int" \/ IsPair(x)

\* C2: constructing a Layer, Convolution or Pooling fails with an argument
\* error and yields no descriptor when kernelSize or stride has a zero or
\* negative entry, padding a negative entry, or a pair a non-integer entry.
C2_InvalidShapeRejected ==
  (/\ last.op \in LayerClasses
   /\ ScalarOrPair(last.args.kernal_size)
   /\ ScalarOrPair(last.args.stride)
   /\ ScalarOrPair(last.args.padding)
   /\ \/ HasNonPositive(last.args.kernal_size)
      \/ HasNonPositive(last.args.stride)
      \/ HasNegative(last.args.padding)
      \/ HasNonInteger(last.args.kernal_size)
      \/ HasNonInteger(last.args.stride)
      \/ HasNonInteger(last.args.padding))
  => (last.outcome = Raise("AssertionError") /\ self = NoDescriptor)

\* a scalar k reads back as (k, k), a pair as itself, both as pairs of integers
ReadsBack(arg, field) ==
  /\ arg.t = "int" => field = Pair(arg, arg)
  /\ arg.t # "int" => field = arg
  /\ IsIntPair(field)

C4_DefaultStridePadding ==
  (Built /\ last.op \in {"Convolution", "Pooling"})
  => /\ last.args.stride = None => stride(self) = Pair(PyInt(1), PyInt(1))
     /\ last.args.padding = None => padding(self) = Pair(PyInt(0), PyInt(0))

BytesPerElement(tag) ==
  CASE tag.s = "uint" -> 1 [] tag.s = "single" -> 4 [] tag.s = "double" -> 8

\* C6: get_memory_usage_param returns get_num_param times the byte width of
\* paramtype when paramtype is set, and raises when paramtype is unset.
C6_MemoryUsageParam ==
  (last.op = "get_memory_usage_param")
  => IF paramtype(self) = None THEN last.outcome.k = "raise"
     ELSE get_num_param(self).k = "return"
            => last.outcome = Return(PyInt(get_num_param(self).v.i
                                           * BytesPerElement(paramtype(self))))

\* C7: get_memory_usage of a Pooling with paramtype set and no data attached
\* returns get_memory_usage_param plus zero, without raising.
C7_MemoryUsagePooling ==
  (last.op = "get_memory_usage" /\ self.cls = "Pooling" /\ paramtype(self) # None
     /\ data(self) = None)
  => /\ get_memory_usage_param(self).k = "return"
     /\ last.outcome = Return(PyInt(get_memory_usage_param(self).v.i + 0))

OneTriple(b) == b.t = "list" /\ Len(b.items) = 1 /\ Len(b.items[1].items) = 3
OutSize(size, pad, kernel, step) == ((size + 2 * pad - kernel) \div step) + 1

\* C8: get_output_blob_shape of a Convolution given one upstream shape
\* (C, H, W) returns (nOutputPlane, (H + 2 padding[0] - kernelSize[0]) div
\* stride[0] + 1, (W + 2 padding[1] - kernelSize[1]) div stride[1] + 1).
C8_ConvolutionOutputShape ==
  (/\ last.op = "get_output_blob_shape" /\ self.cls = "Convolution"
   /\ OneTriple(last.args)
   /\ IsIntPair(stride(self)) /\ IsIntPair(padding(self)))
  => last.outcome =
       Return(PyTuple(<<self._nOutputPlane,
                        PyInt(OutSize(last.args.items[1].items[2].i, padding(self).items[1].i,
                                      kernal_size(self).items[1].i, stride(self).items[1].i)),
                        PyInt(OutSize(last.args.items[1].items[3].i, padding(self).items[2].i,
                                      kernal_size(self).items[2].i, stride(self).items[2].i))>>))

\* C9: assigning to data of a Convolution a 4-D array whose last axis equals
\* nOutputPlane succeeds and data then reads back as that array; assigning
\* any other value raises an argument error and leaves data as it was.
C9_ConvolutionData ==
  [][(self.cls = "Convolution" /\ last'.op = "data.setter")
      => IF /\ isndarray(last'.args) /\ Len(last'.args.shape) = 4
            /\ last'.args.shape[4] = self._nOutputPlane.i
         THEN last'.outcome = Return(None) /\ data(self') = last'.args
         ELSE last'.outcome = Raise("AssertionError") /\ data(self') = data(self)]_vars

\* the arguments other than paramtype are valid
ValidPoolingArgs(a) ==
  /\ isstring(a.name)
  /\ a.nInputPlane.i > 0 /\ a.nOutputPlane.i > 0
  /\ a.datatype \in TypeTags \cup {None}

\* C10: constructing a Pooling with paramtype p in {uint, single, double}
\* and otherwise valid arguments succeeds, paramtype reads back as p and
\* params as unset; paramtype reads back as single only when it was omitted
\* (or given as single).
C10_PoolingParamtype ==
  (last.op = "Pooling" /\ ValidPoolingArgs(last.args))
  => /\ last.args.paramtype \in TypeTags
          => /\ last.outcome.k = "return"
             /\ paramtype(self) = last.args.paramtype
             /\ params(self) = None
     /\ (last.outcome.k = "return" /\ paramtype(self) = Lit("single"))
          => last.args.paramtype \in {None, Lit("single")}

====
